---- MODULE Spec2Model ----
(***************************************************************************)
(* effect-kv: a typed facade (makeKVService, makeTypedKV) over a           *)
(* KVNamespace backend.  The backend modelled is the in-process map of     *)
(* createMockKV; a backend call may also reject, which Effect.tryPromise   *)
(* maps to the tagged errors of errors.ts.                                 *)
(***************************************************************************)
EXTENDS Integers, Sequences, FiniteSets, TLC

(***************************************************************************)
(* Bounds of the model.                                                    *)
(***************************************************************************)
NumKeys == 2

(***************************************************************************)
(* Keys: strings, kept as sequences of characters (list's prefix filter    *)
(* looks inside them).                                                     *)
(***************************************************************************)
KeyList == << <<"a">>, <<"a", "b">>, <<"b">>, <<"b", "a">> >>

Keys == {KeyList[i] : i \in 1..NumKeys}

(***************************************************************************)
(* JavaScript values.  A value is a record [t, v]; t is its kind.          *)
(*   null, undefined, nan, cyclic : v is unused                            *)
(*   bool : v \in BOOLEAN       num : v an integer     str : v a string    *)
(*   arr  : v a sequence of values                                         *)
(*   obj  : v a sequence of <<property name, value>> in insertion order    *)
(*   text : v a sequence of tokens, the characters of a JS string whose    *)
(*          content matters to JSON.parse (what KV stores and returns)     *)
(***************************************************************************)
JNull == [t |-> "null", v |-> 0]

JUndefined == [t |-> "undefined", v |-> 0]

JNaN == [t |-> "nan", v |-> 0]

JCyclic == [t |-> "cyclic", v |-> 0]

JBool(b) == [t |-> "bool", v |-> b]

JNum(n) == [t |-> "num", v |-> n]

JStr(s) == [t |-> "str", v |-> s]

JArr(xs) == [t |-> "arr", v |-> xs]

JObj(ps) == [t |-> "obj", v |-> ps]

JText(toks) == [t |-> "text", v |-> toks]

(***************************************************************************)
(* Tokens of a JSON text.                                                  *)
(***************************************************************************)
P(s) == [k |-> "p", s |-> s]

Word(s) == [k |-> "word", s |-> s]

NumTok(n) == [k |-> "num", s |-> n]

StrTok(s) == [k |-> "str", s |-> s]

(***************************************************************************)
(* JSON.stringify.  undefined, NaN inside arrays become null; properties   *)
(* whose value is undefined are dropped; NaN is written null.              *)
(***************************************************************************)
RECURSIVE Ser(_), SerElems(_, _), SerProps(_, _, _)

Ser(x) ==
  CASE x.t = "null" -> <<Word("null")>>
    [] x.t = "nan" -> <<Word("null")>>
    [] x.t = "undefined" -> <<Word("null")>>
    [] x.t = "bool" -> <<Word(IF x.v THEN "true" ELSE "false")>>
    [] x.t = "num" -> <<NumTok(x.v)>>
    [] x.t = "str" -> <<StrTok(x.v)>>
    [] x.t = "arr" -> <<P("[")>> \o SerElems(x.v, 1) \o <<P("]")>>
    [] x.t = "obj" -> <<P("{")>> \o SerProps(x.v, 1, TRUE) \o <<P("}")>>

SerElems(xs, i) ==
  IF i > Len(xs) THEN <<>>
  ELSE (IF i > 1 THEN <<P(",")>> ELSE <<>>) \o Ser(xs[i]) \o SerElems(xs, i + 1)

SerProps(ps, i, first) ==
  IF i > Len(ps) THEN <<>>
  ELSE IF ps[i][2].t = "undefined" THEN SerProps(ps, i + 1, first)
  ELSE (IF first THEN <<>> ELSE <<P(",")>>)
       \o <<StrTok(ps[i][1]), P(":")>> \o Ser(ps[i][2])
       \o SerProps(ps, i + 1, FALSE)

\* JSON.stringify(value): throws on a cyclic structure, returns undefined for
\* undefined, and a string otherwise.
JSONStringify(x) ==
  CASE x.t = "cyclic" -> [threw |-> TRUE, val |-> JUndefined]
    [] x.t = "undefined" -> [threw |-> FALSE, val |-> JUndefined]
    [] OTHER -> [threw |-> FALSE, val |-> JText(Ser(x))]

(***************************************************************************)
(* JSON.parse: recursive descent over the tokens.                          *)
(***************************************************************************)
ParseFail == [ok |-> FALSE, val |-> JUndefined, rest |-> <<>>]

ParseOk(val, rest) == [ok |-> TRUE, val |-> val, rest |-> rest]

IsP(toks, s) == toks # <<>> /\ Head(toks).k = "p" /\ Head(toks).s = s

RECURSIVE SetProp(_, _, _, _)

\* a repeated property name keeps its place and takes the later value
SetProp(ps, i, name, val) ==
  IF i > Len(ps) THEN Append(ps, <<name, val>>)
  ELSE IF ps[i][1] = name THEN [ps EXCEPT ![i] = <<name, val>>]
  ELSE SetProp(ps, i + 1, name, val)

RECURSIVE ParseValue(_), ParseElems(_, _), ParseMembers(_, _)

ParseValue(toks) ==
  IF toks = <<>> THEN ParseFail
  ELSE LET h == Head(toks)
           r == Tail(toks)
       IN CASE h.k = "word" ->
                 (CASE h.s = "null" -> ParseOk(JNull, r)
                    [] h.s = "true" -> ParseOk(JBool(TRUE), r)
                    [] h.s = "false" -> ParseOk(JBool(FALSE), r)
                    [] OTHER -> ParseFail)
            [] h.k = "num" -> ParseOk(JNum(h.s), r)
            [] h.k = "str" -> ParseOk(JStr(h.s), r)
            [] h.k = "p" ->
                 (CASE h.s = "[" ->
                         IF IsP(r, "]") THEN ParseOk(JArr(<<>>), Tail(r))
                         ELSE ParseElems(r, <<>>)
                    [] h.s = "{" ->
                         IF IsP(r, "}") THEN ParseOk(JObj(<<>>), Tail(r))
                         ELSE ParseMembers(r, <<>>)
                    [] OTHER -> ParseFail)

ParseElems(toks, acc) ==
  LET e == ParseValue(toks)
  IN IF ~e.ok THEN ParseFail
     ELSE IF IsP(e.rest, ",") THEN ParseElems(Tail(e.rest), Append(acc, e.val))
     ELSE IF IsP(e.rest, "]") THEN ParseOk(JArr(Append(acc, e.val)), Tail(e.rest))
     ELSE ParseFail

ParseMembers(toks, acc) ==
  IF toks = <<>> \/ Head(toks).k # "str" \/ ~IsP(Tail(toks), ":") THEN ParseFail
  ELSE LET name == Head(toks).s
           e == ParseValue(Tail(Tail(toks)))
       IN IF ~e.ok THEN ParseFail
          ELSE IF IsP(e.rest, ",")
               THEN ParseMembers(Tail(e.rest), SetProp(acc, 1, name, e.val))
          ELSE IF IsP(e.rest, "}")
               THEN ParseOk(JObj(SetProp(acc, 1, name, e.val)), Tail(e.rest))
          ELSE ParseFail

\* JSON.parse(text): throws a SyntaxError unless the whole text is one value.
JSONParse(text) ==
  LET r == ParseValue(text.v)
  IN IF r.ok /\ r.rest = <<>> THEN [threw |-> FALSE, val |-> r.val]
     ELSE [threw |-> TRUE, val |-> JUndefined]

(***************************************************************************)
(* Option.fromNullable, and the outcomes of an Effect.                     *)
(***************************************************************************)
None == [t |-> "none", v |-> 0]

Some(x) == [t |-> "some", v |-> x]

\* an Option that keeps null as a value
OptionKeepsNull(x) == IF x.t = "undefined" THEN None ELSE Some(x)

OptionFromNullable(x) == IF x.t \in {"null", "undefined"} THEN None ELSE Some(x)

NoKey == <<>>

Succeed(val) == [tag |-> "Success", key |-> NoKey, cause |-> "", val |-> val]

Fail(tag, key, cause) == [tag |-> tag, key |-> key, cause |-> cause, val |-> JUndefined]

KVGetError(key, cause) == Fail("KVGetError", key, cause)

KVPutError(key, cause) == Fail("KVPutError", key, cause)

KVDeleteError(key, cause) == Fail("KVDeleteError", key, cause)

KVListError(cause) == Fail("KVListError", NoKey, cause)

KeyNotFoundError(key) == Fail("KeyNotFoundError", key, "")

(***************************************************************************)
(* The backend: the Map of createMockKV.  An entry is {value, metadata}.   *)
(***************************************************************************)
NoMeta == "none"

NoEntry == [has |-> FALSE, value |-> JUndefined, metadata |-> NoMeta]

Entry(value, metadata) == [has |-> TRUE, value |-> value, metadata |-> metadata]

\* what a backend promise settles to
Resolved(val) == [rejected |-> FALSE, cause |-> "", val |-> val]

Rejected(cause) == [rejected |-> TRUE, cause |-> cause, val |-> JUndefined]

\* a get that hands back the stored text when it is not JSON
MockGetLenient(s, key, type) ==
  IF ~s[key].has THEN Resolved(JNull)
  ELSE IF type = "json"
       THEN LET p == JSONParse(s[key].value)
            IN IF p.threw THEN Resolved(s[key].value) ELSE Resolved(p.val)
       ELSE Resolved(s[key].value)

MockGet(s, key, type) ==
  IF ~s[key].has THEN Resolved(JNull)
  ELSE IF type = "json"
       THEN LET p == JSONParse(s[key].value)
            IN IF p.threw THEN Rejected("SyntaxError") ELSE Resolved(p.val)
       ELSE Resolved(s[key].value)

\* a put that does not replace an entry the key already has
MockPutKeepFirst(s, key, value, metadata) ==
  IF value.t = "text" /\ ~s[key].has THEN [s EXCEPT ![key] = Entry(value, metadata)] ELSE s

MockPut(s, key, value, metadata) ==
  IF value.t = "text" THEN [s EXCEPT ![key] = Entry(value, metadata)] ELSE s

\* a delete that removes nothing
MockDeleteNothing(s, key) == s

MockDelete(s, key) == [s EXCEPT ![key] = NoEntry]

\* store.keys(): a Map keeps its keys in insertion order; set on a key it
\* holds keeps the key's place, a new key goes last, delete takes the key out.
\* keys: the order before the operation, s2: the store after it.
StoreKeys(keys, s2) ==
  LET kept == SelectSeq(keys, LAMBDA k : s2[k].has)
      new == {k \in DOMAIN s2 : s2[k].has /\ \A i \in 1..Len(keys) : keys[i] # k}
  IN IF new = {} THEN kept ELSE Append(kept, CHOOSE k \in new : TRUE)

\* String.prototype.startsWith
StartsWith(k, prefix) ==
  /\ Len(prefix) <= Len(k)
  /\ SubSeq(k, 1, Len(prefix)) = prefix

\* list options left undefined
NoPrefix == <<>>

NoLimit == -1

NoCursor == "none"

\* Array.prototype.slice(0, end) for end >= 0
Slice(xs, end) == SubSeq(xs, 1, IF end < Len(xs) THEN end ELSE Len(xs))

\* options?.limit || 1000: undefined and 0 are falsy
LimitOrDefault(limit) == IF limit = NoLimit \/ limit = 0 THEN 1000 ELSE limit

ListResult(keys, list_complete, cursor) ==
  [t |-> "listResult",
   v |-> [keys |-> keys, list_complete |-> list_complete, cursor |-> cursor]]

\* a list that does not look at the prefix
MockListUnfiltered(keys, prefix, limit, cursor) ==
  ListResult(Slice(keys, LimitOrDefault(limit)), TRUE, NoCursor)

\* keys: store.keys(); !options?.prefix holds for undefined and for ''
MockList(keys, prefix, limit, cursor) ==
  ListResult(
    Slice(SelectSeq(keys, LAMBDA k : prefix = NoPrefix \/ StartsWith(k, prefix)),
          LimitOrDefault(limit)),
    TRUE, NoCursor)

(***************************************************************************)
(* What an operation of the facade amounts to: its outcome, the store it   *)
(* leaves, the backend calls it issued and the schema steps it ran.        *)
(***************************************************************************)
Eff(out, s, calls, steps) == [out |-> out, store |-> s, calls |-> calls, steps |-> steps]

GetCall(key, type) == [m |-> "get", key |-> key, arg |-> type]

PutCall(key, value) == [m |-> "put", key |-> key, arg |-> value.t]

DeleteCall(key) == [m |-> "delete", key |-> key, arg |-> ""]

ListCall(prefix) == [m |-> "list", key |-> prefix, arg |-> ""]

\* options?.type ?? 'text'
TypeOrText(type) == IF type = "none" THEN "text" ELSE type

\* the representation getFromNamespace asks the backend for
RequestedType(type) == IF TypeOrText(type) = "text" THEN "text" ELSE "text"

NsGet(s, key, type, rej) == IF rej THEN Rejected("BackendError") ELSE MockGet(s, key, type)

ReadFromNamespace(s, key, type, rej) ==
  LET r == NsGet(s, key, type, rej)
  IN Eff(IF r.rejected THEN KVGetError(key, r.cause) ELSE Succeed(r.val),
         s, <<GetCall(key, type)>>, <<>>)

getFromNamespace(s, key, type, rej) == ReadFromNamespace(s, key, RequestedType(type), rej)

getJSONFromNamespace(s, key, rej) == ReadFromNamespace(s, key, "json", rej)

getArrayBufferFromNamespace(s, key, rej) == ReadFromNamespace(s, key, "arrayBuffer", rej)

getStreamFromNamespace(s, key, rej) == ReadFromNamespace(s, key, "stream", rej)

putToNamespace(s, key, value, metadata, rej) ==
  IF rej THEN Eff(KVPutError(key, "BackendError"), s, <<PutCall(key, value)>>, <<>>)
  ELSE Eff(Succeed(JUndefined), MockPut(s, key, value, metadata),
           <<PutCall(key, value)>>, <<>>)

\* a list whose rejection is reported as a failed read
listFailsAsGet(s, keys, prefix, limit, cursor, rej) ==
  IF rej THEN Eff(KVGetError(NoKey, "BackendError"), s, <<ListCall(prefix)>>, <<>>)
  ELSE Eff(Succeed(MockList(keys, prefix, limit, cursor)), s, <<ListCall(prefix)>>, <<>>)

\* a delete that reports a key it does not find
deleteStrict(s, key, rej) ==
  IF rej \/ ~s[key].has
  THEN Eff(KVDeleteError(key, IF rej THEN "BackendError" ELSE "NotFound"),
           s, <<DeleteCall(key)>>, <<>>)
  ELSE Eff(Succeed(JUndefined), [s EXCEPT ![key] = NoEntry], <<DeleteCall(key)>>, <<>>)

deleteFromNamespace(s, key, rej) ==
  IF rej THEN Eff(KVDeleteError(key, "BackendError"), s, <<DeleteCall(key)>>, <<>>)
  ELSE Eff(Succeed(JUndefined), MockDelete(s, key), <<DeleteCall(key)>>, <<>>)

listFromNamespace(s, keys, prefix, limit, cursor, rej) ==
  IF rej THEN Eff(KVListError("BackendError"), s, <<ListCall(prefix)>>, <<>>)
  ELSE Eff(Succeed(MockList(keys, prefix, limit, cursor)), s, <<ListCall(prefix)>>, <<>>)

\* Effect.map over the success value
MapOption(e) ==
  IF e.out.tag = "Success" THEN [e EXCEPT !.out = Succeed(OptionFromNullable(e.out.val))]
  ELSE e

(***************************************************************************)
(* makeKVService                                                           *)
(***************************************************************************)
SvcGet(s, key, type, rej) == MapOption(getFromNamespace(s, key, type, rej))

SvcGetJSON(s, key, rej) == MapOption(getJSONFromNamespace(s, key, rej))

SvcGetArrayBuffer(s, key, rej) == MapOption(getArrayBufferFromNamespace(s, key, rej))

SvcGetStream(s, key, rej) == MapOption(getStreamFromNamespace(s, key, rej))

\* a put that writes only under a key the store does not hold
SvcPutIfAbsent(s, key, value, metadata, rej) ==
  IF s[key].has /\ ~rej THEN Eff(Succeed(JUndefined), s, <<PutCall(key, value)>>, <<>>)
  ELSE putToNamespace(s, key, value, metadata, rej)

SvcPut(s, key, value, metadata, rej) == putToNamespace(s, key, value, metadata, rej)

\* a putJSON that writes an empty text when the value does not serialize
SvcPutJSONUnguarded(s, key, value, metadata, rej) ==
  LET j == JSONStringify(value)
  IN putToNamespace(s, key, IF j.threw THEN JText(<<>>) ELSE j.val, metadata, rej)

SvcPutJSON(s, key, value, metadata, rej) ==
  LET j == JSONStringify(value)
  IN IF j.threw THEN Eff(KVPutError(key, "TypeError"), s, <<>>, <<>>)
     ELSE putToNamespace(s, key, j.val, metadata, rej)

SvcDelete(s, key, rej) == deleteFromNamespace(s, key, rej)

SvcList(s, keys, prefix, limit, cursor, rej) ==
  listFromNamespace(s, keys, prefix, limit, cursor, rej)

\* a getOrFail that reports absence as a failed read
SvcGetOrFailAsGetError(s, key, type, rej) ==
  LET e == getFromNamespace(s, key, type, rej)
  IN IF e.out.tag # "Success" THEN e
     ELSE IF e.out.val.t = "null" THEN [e EXCEPT !.out = KVGetError(key, "Key not found")]
     ELSE e

SvcGetOrFail(s, key, type, rej) ==
  LET e == getFromNamespace(s, key, type, rej)
  IN IF e.out.tag # "Success" THEN e
     ELSE IF e.out.val.t = "null" THEN [e EXCEPT !.out = KeyNotFoundError(key)]
     ELSE e

\* a getOrElse with the test on null inverted
SvcGetOrElseInverted(s, key, defaultValue, type, rej) ==
  LET e == getFromNamespace(s, key, type, rej)
  IN IF e.out.tag # "Success" THEN e
     ELSE IF e.out.val.t = "null" THEN e
     ELSE [e EXCEPT !.out = Succeed(defaultValue)]

SvcGetOrElse(s, key, defaultValue, type, rej) ==
  LET e == getFromNamespace(s, key, type, rej)
  IN IF e.out.tag # "Success" THEN e
     ELSE IF e.out.val.t = "null" THEN [e EXCEPT !.out = Succeed(defaultValue)]
     ELSE e

(***************************************************************************)
(* Schemas (Schema.Schema<V>: the encoded type is the type itself).        *)
(*   User         Struct({id: Number, name: String,                        *)
(*                        email: String.pipe(pattern(/.+@.+\..+/))})       *)
(*   NullOrNumber NullOr(Number)                                           *)
(***************************************************************************)
Schemas == {"User", "NullOrNumber"}

RECURSIVE GetProp(_, _, _)

\* obj[name], undefined when the object has no such property
GetProp(ps, i, name) ==
  IF i > Len(ps) THEN JUndefined
  ELSE IF ps[i][1] = name THEN ps[i][2]
  ELSE GetProp(ps, i + 1, name)

\* Schema.Number accepts every JS number, NaN included
IsNumber(x) == x.t \in {"num", "nan"}

IsString(x) == x.t = "str"

\* the strings of the model that match /.+@.+\..+/
MatchesEmail(str) == str \in {"a@x.io"}

ParseOutcome(ok, val) == [ok |-> ok, val |-> val]

\* a Struct keeps the declared properties only, in the order declared
ParseUser(x) ==
  IF x.t # "obj" THEN ParseOutcome(FALSE, JUndefined)
  ELSE LET id == GetProp(x.v, 1, "id")
           name == GetProp(x.v, 1, "name")
           email == GetProp(x.v, 1, "email")
       IN IF IsNumber(id) /\ IsString(name) /\ IsString(email) /\ MatchesEmail(email.v)
          THEN ParseOutcome(TRUE,
                 JObj(<< <<"id", id>>, <<"name", name>>, <<"email", email>> >>))
          ELSE ParseOutcome(FALSE, JUndefined)

ParseNullOrNumber(x) ==
  IF x.t = "null" \/ IsNumber(x) THEN ParseOutcome(TRUE, x)
  ELSE ParseOutcome(FALSE, JUndefined)

SchemaDecodeUnknown(schema, x) ==
  IF schema = "User" THEN ParseUser(x) ELSE ParseNullOrNumber(x)

SchemaEncode(schema, v) ==
  IF schema = "User" THEN ParseUser(v) ELSE ParseNullOrNumber(v)

(***************************************************************************)
(* makeTypedKV                                                             *)
(***************************************************************************)
\* the decode of a stored value, shared by get, getOrFail and getOrElse
DecodeStored(e, schema, key, before, wrap) ==
  LET d == SchemaDecodeUnknown(schema, e.out.val.v)
  IN [e EXCEPT !.out = IF d.ok THEN Succeed(IF wrap THEN Some(d.val) ELSE d.val)
                       ELSE KVGetError(key, "Schema validation failed"),
               !.steps = before \o <<"getJSON", "decode">>]

TypedGet(s, schema, key, rej) ==
  LET e == SvcGetJSON(s, key, rej)
  IN IF e.out.tag # "Success" THEN [e EXCEPT !.steps = <<"getJSON">>]
     ELSE IF e.out.val = None THEN [e EXCEPT !.steps = <<"getJSON">>]
     ELSE DecodeStored(e, schema, key, <<>>, TRUE)

\* a typed put that writes the value without encoding it
TypedPutUnchecked(s, schema, key, value, rej) ==
  [SvcPutJSON(s, key, value, schema, rej) EXCEPT !.steps = <<"putJSON">>]

TypedPut(s, schema, key, value, rej) ==
  LET enc == SchemaEncode(schema, value)
  IN IF ~enc.ok
     THEN Eff(KVPutError(key, "Schema encoding failed"), s, <<>>, <<"encode">>)
     ELSE [SvcPutJSON(s, key, enc.val, schema, rej) EXCEPT !.steps = <<"encode", "putJSON">>]

\* a typed getOrFail that removes an entry that fails the schema
TypedGetOrFailPurging(s, schema, key, rej) ==
  LET e == SvcGetJSON(s, key, rej)
  IN IF e.out.tag # "Success" THEN [e EXCEPT !.steps = <<"getJSON">>]
     ELSE IF e.out.val = None
          THEN [e EXCEPT !.out = KVGetError(key, "Key not found"), !.steps = <<"getJSON">>]
     ELSE LET d == DecodeStored(e, schema, key, <<>>, FALSE)
          IN IF d.out.tag = "Success" THEN d ELSE [d EXCEPT !.store = MockDelete(s, key)]

TypedGetOrFail(s, schema, key, rej) ==
  LET e == SvcGetJSON(s, key, rej)
  IN IF e.out.tag # "Success" THEN [e EXCEPT !.steps = <<"getJSON">>]
     ELSE IF e.out.val = None
          THEN [e EXCEPT !.out = KVGetError(key, "Key not found"), !.steps = <<"getJSON">>]
     ELSE DecodeStored(e, schema, key, <<>>, FALSE)

\* a getOrElse that hands the default back as it came
TypedGetOrElseUnchecked(s, schema, key, defaultValue, rej) ==
  LET e == SvcGetJSON(s, key, rej)
  IN IF e.out.tag # "Success" THEN [e EXCEPT !.steps = <<"getJSON">>]
     ELSE IF e.out.val = None
          THEN [e EXCEPT !.out = Succeed(defaultValue), !.steps = <<"getJSON">>]
     ELSE DecodeStored(e, schema, key, <<>>, FALSE)

TypedGetOrElse(s, schema, key, defaultValue, rej) ==
  LET enc == SchemaEncode(schema, defaultValue)
  IN IF ~enc.ok
     THEN Eff(KVGetError(key, "Default value encoding failed"), s, <<>>, <<"encode">>)
     ELSE LET e == SvcGetJSON(s, key, rej)
          IN IF e.out.tag # "Success" THEN [e EXCEPT !.steps = <<"encode", "getJSON">>]
             ELSE IF e.out.val = None
                  THEN LET d == SchemaDecodeUnknown(schema, enc.val)
                       IN [e EXCEPT !.out = IF d.ok THEN Succeed(d.val)
                                            ELSE KVGetError(key, "Default value decoding failed"),
                                    !.steps = <<"encode", "getJSON", "decodeDefault">>]
             ELSE DecodeStored(e, schema, key, <<"encode">>, FALSE)

(***************************************************************************)
(* Inputs.                                                                 *)
(***************************************************************************)
TextV == JText(<<Word("v")>>)

TextNull == JText(<<Word("null")>>)

TextD == JText(<<Word("d")>>)

\* put is given texts (the mock keeps nothing else)
PutValues == {TextV, TextNull}

UserOk ==
  JObj(<< <<"id", JNum(1)>>, <<"name", JStr("Alice")>>, <<"email", JStr("a@x.io")>> >>)

UserBad ==
  JObj(<< <<"id", JNum(1)>>, <<"name", JStr("Alice")>>, <<"email", JStr("bad")>> >>)

PutJSONValues == {JNull, UserOk, JCyclic}

\* the values of the schema's TypeScript type V
TypedValues(schema) == IF schema = "User" THEN {UserOk, UserBad} ELSE {JNull, JNum(1)}

GetTypes == {"none", "text", "json", "arrayBuffer", "stream"}

\* list is asked for every key name as a prefix, or for none
Prefixes == {NoPrefix} \cup Keys

Limits == {NoLimit, 0, 1}

ListOptions(prefix, limit, cursor) ==
  [t |-> "listOptions", v |-> [prefix |-> prefix, limit |-> limit, cursor |-> cursor]]

(***************************************************************************)
(* The layers.  Each hands out makeKVService over the namespace it is      *)
(* given; a call of the service is a record naming the operation and its   *)
(* arguments.                                                              *)
(***************************************************************************)
Call(op, key, value, type, prefix, limit) ==
  [op |-> op, key |-> key, value |-> value, type |-> type,
   prefix |-> prefix, limit |-> limit]

RawCalls ==
  {Call("get", k, JUndefined, t, NoPrefix, NoLimit) : k \in Keys, t \in GetTypes}
    \cup {Call(o, k, JUndefined, "none", NoPrefix, NoLimit) :
            o \in {"getJSON", "getArrayBuffer", "getStream", "delete"}, k \in Keys}
    \cup {Call("put", k, v, "none", NoPrefix, NoLimit) : k \in Keys, v \in PutValues}
    \cup {Call("putJSON", k, v, "none", NoPrefix, NoLimit) : k \in Keys, v \in PutJSONValues}
    \cup {Call("getOrFail", k, JUndefined, t, NoPrefix, NoLimit) :
            k \in Keys, t \in {"none", "json"}}
    \cup {Call("getOrElse", k, TextD, t, NoPrefix, NoLimit) :
            k \in Keys, t \in {"none", "json"}}
    \cup {Call("list", NoKey, JUndefined, "none", p, l) : p \in Prefixes, l \in Limits}

\* s, keys: the namespace's map and its key order; rej: its calls reject
makeKVService(s, keys, rej, c) ==
  CASE c.op = "get" -> SvcGet(s, c.key, c.type, rej)
    [] c.op = "getJSON" -> SvcGetJSON(s, c.key, rej)
    [] c.op = "getArrayBuffer" -> SvcGetArrayBuffer(s, c.key, rej)
    [] c.op = "getStream" -> SvcGetStream(s, c.key, rej)
    [] c.op = "put" -> SvcPut(s, c.key, c.value, NoMeta, rej)
    [] c.op = "putJSON" -> SvcPutJSON(s, c.key, c.value, NoMeta, rej)
    [] c.op = "delete" -> SvcDelete(s, c.key, rej)
    [] c.op = "list" -> SvcList(s, keys, c.prefix, c.limit, NoCursor, rej)
    [] c.op = "getOrFail" -> SvcGetOrFail(s, c.key, c.type, rej)
    [] c.op = "getOrElse" -> SvcGetOrElse(s, c.key, c.value, c.type, rej)

\* a live layer whose binding is another, empty namespace
KVLiveOtherBinding(s, keys, rej, c) ==
  makeKVService([k \in DOMAIN s |-> NoEntry], <<>>, rej, c)

\* KVNamespaceBinding is the namespace s
KVLive(s, keys, rej, c) == makeKVService(s, keys, rej, c)

layerFromNamespace(s, keys, rej, c) == makeKVService(s, keys, rej, c)

KVTest(s, keys, rej, c) == makeKVService(s, keys, rej, c)

Layers == {"KVTest", "layerFromNamespace", "KVLive"}

\* Effect.provide(layer): the program's call goes to the layer's service
Provide(layer, s, keys, rej, c) ==
  CASE layer = "KVTest" -> KVTest(s, keys, rej, c)
    [] layer = "layerFromNamespace" -> layerFromNamespace(s, keys, rej, c)
    [] layer = "KVLive" -> KVLive(s, keys, rej, c)

VARIABLES store, order, backend, last, written, paged, callers, applied

vars == <<store, order, backend, last, written, paged, callers, applied>>

\* store:   the backend's map, key -> entry
\* order:   the keys of the map in its insertion order (store.keys())
\* paged:   the key names a caller paging through list has gathered so far
\* callers: the fibres that run put side by side, each with the put it is in
\* applied: per key, the caller whose backend write was applied last
\* backend: "up", or "down" while its calls reject
\* last:    the facade operation completed last, with its outcome
\* written: per key, the last mutation the facade completed successfully

\* whether a call to the bound namespace rejects now
Rej == backend = "down"

Never == [kind |-> "never", val |-> JUndefined, schema |-> ""]

Wrote(kind, val, schema) == [kind |-> kind, val |-> val, schema |-> schema]

\* the record of a completed operation; had: the key held an entry when it began
Done(op, key, arg, type, schema, rej, e) ==
  [op |-> op, key |-> key, arg |-> arg, type |-> type, schema |-> schema,
   rej |-> rej, had |-> store[key].has,
   out |-> e.out, calls |-> e.calls, steps |-> e.steps]

InitLast ==
  [op |-> "init", key |-> NoKey, arg |-> JUndefined, type |-> "none", schema |-> "",
   rej |-> FALSE, had |-> FALSE,
   out |-> Succeed(JUndefined), calls |-> <<>>, steps |-> <<>>]

\* the fibres that put concurrently
Callers == {"c1", "c2"}

NoCaller == "none"

Idle == [pc |-> "idle", key |-> NoKey, value |-> JUndefined, out |-> Succeed(JUndefined)]

Init ==
  /\ callers = [c \in Callers |-> Idle]
  /\ applied = [k \in Keys |-> NoCaller]
  /\ store = [k \in Keys |-> NoEntry]
  /\ order = <<>>
  /\ paged = {}
  /\ backend = "up"
  /\ last = InitLast
  /\ written = [k \in Keys |-> Never]

\* the key's last successful mutation after a write
Record(op, key, arg, schema, e) ==
  IF e.out.tag = "Success" THEN [written EXCEPT ![key] = Wrote(op, arg, schema)]
  ELSE written

Get ==
  \E key \in Keys, type \in GetTypes :
    \E e \in {SvcGet(store, key, type, Rej)} :
       /\ last' = Done("get", key, JUndefined, type, "", Rej, e)
       /\ store' = e.store
       /\ paged' = {}
       /\ UNCHANGED <<order, backend, written, callers, applied>>

GetJSON ==
  \E key \in Keys :
    \E e \in {SvcGetJSON(store, key, Rej)} :
       /\ last' = Done("getJSON", key, JUndefined, "none", "", Rej, e)
       /\ store' = e.store
       /\ paged' = {}
       /\ UNCHANGED <<order, backend, written, callers, applied>>

GetArrayBuffer ==
  \E key \in Keys :
    \E e \in {SvcGetArrayBuffer(store, key, Rej)} :
       /\ last' = Done("getArrayBuffer", key, JUndefined, "none", "", Rej, e)
       /\ store' = e.store
       /\ paged' = {}
       /\ UNCHANGED <<order, backend, written, callers, applied>>

GetStream ==
  \E key \in Keys :
    \E e \in {SvcGetStream(store, key, Rej)} :
       /\ last' = Done("getStream", key, JUndefined, "none", "", Rej, e)
       /\ store' = e.store
       /\ paged' = {}
       /\ UNCHANGED <<order, backend, written, callers, applied>>

Put ==
  \E key \in Keys, value \in PutValues :
    \E e \in {SvcPut(store, key, value, NoMeta, Rej)} :
       /\ last' = Done("put", key, value, "none", "", Rej, e)
       /\ store' = e.store
       /\ written' = Record("put", key, value, "", e)
       /\ order' = StoreKeys(order, e.store)
       /\ paged' = {}
       /\ UNCHANGED <<backend, callers, applied>>

PutJSON ==
  \E key \in Keys, value \in PutJSONValues :
    \E e \in {SvcPutJSON(store, key, value, NoMeta, Rej)} :
       /\ last' = Done("putJSON", key, value, "none", "", Rej, e)
       /\ store' = e.store
       /\ written' = Record("putJSON", key, value, "", e)
       /\ order' = StoreKeys(order, e.store)
       /\ paged' = {}
       /\ UNCHANGED <<backend, callers, applied>>

Delete ==
  \E key \in Keys :
    \E e \in {SvcDelete(store, key, Rej)} :
       /\ last' = Done("delete", key, JUndefined, "none", "", Rej, e)
       /\ store' = e.store
       /\ written' = Record("delete", key, JUndefined, "", e)
       /\ order' = StoreKeys(order, e.store)
       /\ paged' = {}
       /\ UNCHANGED <<backend, callers, applied>>

\* the cursor a caller paging through list feeds back: the one the page
\* before returned, when that page was not marked complete
PageCursor ==
  IF last.op = "list" /\ last.out.tag = "Success"
  THEN IF last.out.val.v.list_complete THEN NoCursor ELSE last.out.val.v.cursor
  ELSE NoCursor

Names(keys) == {keys[i] : i \in 1..Len(keys)}

List ==
  \E prefix \in Prefixes, limit \in Limits :
    \E e \in {SvcList(store, order, prefix, limit, PageCursor, Rej)} :
       /\ last' = [InitLast EXCEPT !.op = "list", !.rej = Rej,
                                   !.arg = ListOptions(prefix, limit, PageCursor),
                                   !.out = e.out, !.calls = e.calls]
       /\ store' = e.store
       /\ paged' = (IF PageCursor = NoCursor THEN {} ELSE paged)
                     \cup (IF e.out.tag = "Success" THEN Names(e.out.val.v.keys) ELSE {})
       /\ UNCHANGED <<order, backend, written, callers, applied>>

GetOrFail ==
  \E key \in Keys, type \in {"none", "json"} :
    \E e \in {SvcGetOrFail(store, key, type, Rej)} :
       /\ last' = Done("getOrFail", key, JUndefined, type, "", Rej, e)
       /\ store' = e.store
       /\ paged' = {}
       /\ UNCHANGED <<order, backend, written, callers, applied>>

GetOrElse ==
  \E key \in Keys, type \in {"none", "json"} :
    \E e \in {SvcGetOrElse(store, key, TextD, type, Rej)} :
       /\ last' = Done("getOrElse", key, TextD, type, "", Rej, e)
       /\ store' = e.store
       /\ paged' = {}
       /\ UNCHANGED <<order, backend, written, callers, applied>>

TGet ==
  \E schema \in Schemas, key \in Keys :
    \E e \in {TypedGet(store, schema, key, Rej)} :
       /\ last' = Done("typedGet", key, JUndefined, "none", schema, Rej, e)
       /\ store' = e.store
       /\ paged' = {}
       /\ UNCHANGED <<order, backend, written, callers, applied>>

TPut ==
  \E schema \in Schemas, key \in Keys :
    \E value \in TypedValues(schema) :
      \E e \in {TypedPut(store, schema, key, value, Rej)} :
         /\ last' = Done("typedPut", key, value, "none", schema, Rej, e)
         /\ store' = e.store
         /\ written' = Record("typedPut", key, value, schema, e)
         /\ order' = StoreKeys(order, e.store)
         /\ paged' = {}
         /\ UNCHANGED <<backend, callers, applied>>

TGetOrFail ==
  \E schema \in Schemas, key \in Keys :
    \E e \in {TypedGetOrFail(store, schema, key, Rej)} :
       /\ last' = Done("typedGetOrFail", key, JUndefined, "none", schema, Rej, e)
       /\ store' = e.store
       /\ paged' = {}
       /\ UNCHANGED <<order, backend, written, callers, applied>>

TGetOrElse ==
  \E schema \in Schemas, key \in Keys :
    \E defaultValue \in TypedValues(schema) :
      \E e \in {TypedGetOrElse(store, schema, key, defaultValue, Rej)} :
         /\ last' = Done("typedGetOrElse", key, defaultValue, "none", schema, Rej, e)
         /\ store' = e.store
         /\ paged' = {}
         /\ UNCHANGED <<order, backend, written, callers, applied>>

\* put(key, value) run once by each fibre, in its two steps.  PutBegin: the fibre
\* runs tryPromise's try, namespace.put is called and the backend applies the
\* write (or rejects); the promise is pending.  PutEnd: the promise settles
\* and the put completes with its outcome, which callers keeps.
PutBegin(c) ==
  /\ callers[c].pc = "idle"
  /\ \E key \in Keys, value \in PutValues :
       \E e \in {SvcPut(store, key, value, NoMeta, Rej)} :
          /\ callers' = [callers EXCEPT ![c] =
                           [pc |-> "called", key |-> key, value |-> value, out |-> e.out]]
          /\ store' = e.store
          /\ order' = StoreKeys(order, e.store)
          /\ applied' = IF e.out.tag = "Success" THEN [applied EXCEPT ![key] = c]
                         ELSE applied
          /\ last' = [InitLast EXCEPT !.op = "putBegin"]
  /\ paged' = {}
  /\ UNCHANGED <<backend, written>>

PutEnd(c) ==
  /\ callers[c].pc = "called"
  /\ callers' = [callers EXCEPT ![c].pc = "done"]
  /\ last' = [InitLast EXCEPT !.op = "putEnd"]
  /\ written' = IF callers[c].out.tag = "Success"
                 THEN [written EXCEPT ![callers[c].key] = Wrote("put", callers[c].value, "")]
                 ELSE written
  /\ paged' = {}
  /\ UNCHANGED <<store, order, backend, applied>>

\* the raw facade (KVService)
Next ==
  \/ Get
  \/ GetJSON
  \/ GetArrayBuffer
  \/ GetStream
  \/ Put
  \/ PutJSON
  \/ Delete
  \/ List
  \/ GetOrFail
  \/ GetOrElse

Spec == Init /\ [][Next]_vars

\* the backend starts or stops rejecting every call (an outage, a quota)
Outage ==
  /\ backend' = IF backend = "up" THEN "down" ELSE "up"
  /\ last' = [InitLast EXCEPT !.op = "outage"]
  /\ paged' = {}
  /\ UNCHANGED <<store, order, written, callers, applied>>

\* the raw facade over a backend whose calls may reject
NextUnreliable ==
  \/ Next
  \/ Outage

SpecUnreliable == Init /\ [][NextUnreliable]_vars

\* the schema-validated facade (makeTypedKV), beside raw put and delete and
\* the raw JSON read
NextTyped ==
  \/ GetJSON
  \/ TGet
  \/ TPut
  \/ TGetOrFail
  \/ TGetOrElse
  \/ Put
  \/ Delete

SpecTyped == Init /\ [][NextTyped]_vars

\* both facades over a backend whose calls may reject
NextAll ==
  \/ NextUnreliable
  \/ TGet
  \/ TPut
  \/ TGetOrFail
  \/ TGetOrElse

SpecAll == Init /\ [][NextAll]_vars

\* a call of the raw facade through the service of one of the layers, all
\* over the one namespace.  The record keeps the key and whether the backend
\* rejected; the answers of the layers are compared in place.
Invoke ==
  \E layer \in Layers, c \in RawCalls :
    \E e \in {Provide(layer, store, order, Rej, c)} :
       /\ last' = [InitLast EXCEPT !.op = "invoke", !.key = c.key, !.rej = Rej,
                                   !.had = c.key # NoKey /\ store[c.key].has]
       /\ store' = e.store
       /\ order' = StoreKeys(order, e.store)
       /\ written' = IF c.op \in {"put", "putJSON", "delete"}
                     THEN Record(c.op, c.key, c.value, "", e)
                     ELSE written
       /\ paged' = {}
       /\ UNCHANGED <<backend, callers, applied>>

NextLayers ==
  \/ Invoke
  \/ Outage

SpecLayers == Init /\ [][NextLayers]_vars

\* fibres that put side by side, and reads of what they leave.  A pending
\* promise of the backend settles, so a put that has begun ends.
NextConcurrent ==
  \/ \E c \in Callers : PutBegin(c)
  \/ \E c \in Callers : PutEnd(c)
  \/ Get

SpecConcurrent ==
  Init /\ [][NextConcurrent]_vars /\ \A c \in Callers : WF_vars(PutEnd(c))

(***************************************************************************)
(* The properties checked.                                                 *)
(***************************************************************************)
\* the key of the last operation, and the last successful mutation of it
K == last.key

W == written[last.key]

ReadDone(ops) == last.op \in ops

\* C1: after a successful put(k, v) of a text v, with no later put or delete
\* on k, get(k) yields Present(v), whatever was written to k before.
C1_PutThenGet ==
  (ReadDone({"get"}) /\ W.kind = "put") => last.out = Succeed(Some(W.val))

C1_Witness ==
  /\ ReadDone({"get"})
  /\ W = Wrote("put", TextNull, "")
  /\ last.had
  /\ last.out = Succeed(Some(TextNull))
  /\ \E k \in Keys : written[k] = Wrote("put", TextV, "")

\* C2: for a key never written, or whose last successful mutation was a
\* delete, get and getJSON succeed with Absent.
C2_AbsentReads ==
  (ReadDone({"get", "getJSON"}) /\ W.kind \in {"never", "delete"})
    => last.out = Succeed(None)

C2_Witness ==
  /\ ReadDone({"getJSON"})
  /\ W.kind = "delete"
  /\ last.out = Succeed(None)
  /\ \E k \in Keys : store[k].has

\* C3: raw getOrFail returns the stored text when the backend read returns a
\* value, fails with KeyNotFound(k) exactly when the read returns null, and
\* fails with GetFailure(k) exactly when the read itself fails.
C3_GetOrFailOutcomes ==
  ReadDone({"getOrFail"}) =>
    /\ last.rej => last.out = KVGetError(K, "BackendError")
    /\ (~last.rej /\ store[K].has) => last.out = Succeed(store[K].value)
    /\ (~last.rej /\ ~store[K].has) => last.out = KeyNotFoundError(K)
    /\ last.had = store[K].has

C3_Witness ==
  /\ ReadDone({"getOrFail"})
  /\ last.rej
  /\ W = Wrote("put", TextV, "")
  /\ last.out = KVGetError(K, "BackendError")

\* C4: raw getOrElse returns the stored text when k is present and the default
\* when k is absent; it fails only with GetFailure, when the read fails.
C4_GetOrElseOutcomes ==
  ReadDone({"getOrElse"}) =>
    /\ last.out.tag \in {"Success", "KVGetError"}
    /\ last.rej => last.out = KVGetError(K, "BackendError")
    /\ (~last.rej /\ store[K].has) => last.out = Succeed(store[K].value)
    /\ (~last.rej /\ ~store[K].has) => last.out = Succeed(last.arg)

C4_Witness ==
  /\ ReadDone({"getOrElse"})
  /\ ~last.rej
  /\ W.kind = "delete"
  /\ last.out = Succeed(TextD)

\* C5: delete of an absent key leaves the store as it is and fails only when
\* the backend call itself fails; a successful delete leaves the key absent,
\* so a second delete ends as the first did.
C5_DeleteIdempotent ==
  [][(last'.op = "delete")
       => /\ (last'.out = Succeed(JUndefined)) = ~last'.rej
          /\ ~store[last'.key].has => store' = store
          /\ ~last'.rej => ~store'[last'.key].has]_vars

C5_Witness ==
  /\ last.op = "delete"
  /\ ~last.had
  /\ W.kind = "delete"
  /\ last.out = Succeed(JUndefined)
  /\ \E k \in Keys : store[k].has
\* the values of the model that satisfy a schema, written out
Satisfies(schema, v) ==
  \/ schema = "User" /\ v = UserOk
  \/ schema = "NullOrNumber" /\ v \in {JNull, JNum(1)}

\* the JSON value the key's last successful mutation left under it
HoldsJson(w) == w.kind \in {"putJSON", "typedPut"} \/ w = Wrote("put", TextNull, "")

JsonOf(w) == IF w.kind = "put" THEN JNull ELSE w.val

\* C6: putJSON(k, v) followed by getJSON(k), with no mutation of k between,
\* yields Present(v), for every JSON value v, null included.
C6_JsonRoundTrip ==
  (ReadDone({"getJSON"}) /\ W.kind = "putJSON") => last.out = Succeed(Some(W.val))

\* C7: typed put(k, v) of a value satisfying the schema, followed by typed
\* get(k) under the same schema with no mutation of k between, yields
\* Present(v); typed get of a key never written yields Absent.
C7_TypedRoundTrip ==
  ReadDone({"typedGet"}) =>
    /\ (W.kind = "typedPut" /\ W.schema = last.schema)
         => last.out = Succeed(Some(W.val))
    /\ W.kind = "never" => last.out = Succeed(None)

\* C8: when the JSON stored under k does not satisfy the schema, typed get,
\* getOrFail and getOrElse all fail with GetFailure carrying k.
C8_InvalidStoredFails ==
  (/\ ReadDone({"typedGet", "typedGetOrFail", "typedGetOrElse"})
   /\ HoldsJson(W)
   /\ ~Satisfies(last.schema, JsonOf(W)))
    => (last.out.tag = "KVGetError" /\ last.out.key = K)

\* C9: typed getOrFail of an absent key fails with KeyNotFound carrying k,
\* and no decode is attempted.
C9_TypedGetOrFailAbsent ==
  (ReadDone({"typedGetOrFail"}) /\ W.kind \in {"never", "delete"})
    => (last.out = KeyNotFoundError(K) /\ \A i \in DOMAIN last.steps : last.steps[i] # "decode")

\* C10 as stated: on an absent key typed getOrElse returns d if d satisfies
\* the schema and fails with GetFailure(k) otherwise; when k holds data that
\* satisfies the schema, the stored value is returned.
C10_AsStated ==
  ReadDone({"typedGetOrElse"}) =>
    /\ (W.kind \in {"never", "delete"} /\ Satisfies(last.schema, last.arg))
         => last.out = Succeed(last.arg)
    /\ (W.kind \in {"never", "delete"} /\ ~Satisfies(last.schema, last.arg))
         => (last.out.tag = "KVGetError" /\ last.out.key = K)
    /\ (HoldsJson(W) /\ Satisfies(last.schema, JsonOf(W)))
         => last.out = Succeed(JsonOf(W))

\* C10, amended: a default that fails the schema makes the call fail with
\* GetFailure(k) whether or not k is present; a default that passes is
\* returned for an absent key; and when the default passes and the JSON read
\* of k yields a present (non-null) value satisfying the schema, the stored
\* value is returned.
C10_TypedGetOrElse ==
  ReadDone({"typedGetOrElse"}) =>
    /\ ~Satisfies(last.schema, last.arg)
         => (last.out.tag = "KVGetError" /\ last.out.key = K)
    /\ (W.kind \in {"never", "delete"} /\ Satisfies(last.schema, last.arg))
         => last.out = Succeed(last.arg)
    /\ (/\ HoldsJson(W)
        /\ JsonOf(W) # JNull
        /\ Satisfies(last.schema, JsonOf(W))
        /\ Satisfies(last.schema, last.arg))
         => last.out = Succeed(JsonOf(W))

C10_Witness ==
  /\ ReadDone({"typedGetOrElse"})
  /\ last.schema = "User"
  /\ last.arg = UserBad
  /\ W = Wrote("typedPut", UserOk, "User")
  /\ last.out = KVGetError(K, "Default value encoding failed")

\* the operations of the two facades
RawReads == {"get", "getJSON", "getArrayBuffer", "getStream", "getOrElse"}

TypedReads == {"typedGet", "typedGetOrElse"}

FacadeOps ==
  RawReads \cup TypedReads
    \cup {"getOrFail", "typedGetOrFail", "put", "putJSON", "typedPut", "delete", "list"}

\* the error kinds the claim allows an operation
AllowedErrors(op) ==
  CASE op \in RawReads \cup TypedReads -> {"KVGetError"}
    [] op \in {"getOrFail", "typedGetOrFail"} -> {"KVGetError", "KeyNotFoundError"}
    [] op \in {"put", "putJSON", "typedPut"} -> {"KVPutError"}
    [] op = "delete" -> {"KVDeleteError"}
    [] op = "list" -> {"KVListError"}

\* C11: over a backend whose calls may reject, every operation of the two
\* facades ends in success or in one tagged error of a kind allowed for it:
\* reads only GetFailure (getOrFail also KeyNotFound), writes only
\* PutFailure, delete only DeleteFailure, list only ListFailure; and when the
\* backend call rejects, the operation fails with such an error.
C11_ClosedErrorChannel ==
  last.op \in FacadeOps =>
    /\ last.out.tag \in {"Success"} \cup AllowedErrors(last.op)
    /\ (last.rej /\ last.calls # <<>>) => last.out.tag \in AllowedErrors(last.op)

C11_Witness ==
  /\ last.op = "typedPut"
  /\ last.rej
  /\ last.had
  /\ last.out = KVPutError(K, "BackendError")
  /\ \E k \in Keys : written[k].kind = "typedPut"
\* a list that has answered, its options and the names of its page
ListDone == last.op = "list" /\ last.out.tag = "Success"

Opts == last.arg.v

Page == last.out.val.v

\* the keys the store holds whose names start with the prefix
Matching(prefix) ==
  {k \in Keys : store[k].has /\ (prefix = NoPrefix \/ StartsWith(k, prefix))}

\* C12: list({prefix: p}) returns only names that start with p, each of a key
\* the store holds now and none twice; when no limit truncates the page, every
\* stored key with prefix p is in it.
C12_ListPrefix ==
  ListDone =>
    /\ Names(Page.keys) \subseteq Matching(Opts.prefix)
    /\ Cardinality(Names(Page.keys)) = Len(Page.keys)
    /\ (Opts.limit = NoLimit \/ Opts.limit >= Cardinality(Matching(Opts.prefix)))
         => Names(Page.keys) = Matching(Opts.prefix)

C12_Witness ==
  /\ ListDone
  /\ Opts.prefix = KeyList[2]
  /\ Opts.limit = NoLimit
  /\ Page.keys = <<KeyList[2]>>
  /\ store[KeyList[1]].has
  /\ order = <<KeyList[1], KeyList[2]>>

\* C13: paging through list with the returned cursor ends with a page marked
\* complete, and the names gathered up to that page are all the stored keys
\* with the prefix: no page is marked complete while a matching key is
\* unreturned.
C13_PaginationComplete ==
  (ListDone /\ Page.list_complete) => paged = Matching(Opts.prefix)

\* C14: list({limit: n}) returns at most n keys, for every n >= 0, 0 included.
C14_ListLimit ==
  (ListDone /\ Opts.limit # NoLimit) => Len(Page.keys) <= Opts.limit
C16_RepresentationSelects ==
  last.op \in {"get", "getOrFail", "getOrElse"}
    => last.calls = <<GetCall(K, TypeOrText(last.type))>>
\* C17: when the text put under k is not JSON, getJSON(k) and typed get(k)
\* fail with GetFailure carrying k and the parse error; they return neither
\* Absent nor the text, and the entry stays as it was.
C17_InvalidJsonText ==
  (/\ ReadDone({"getJSON", "typedGet"})
   /\ W.kind = "put"
   /\ JSONParse(W.val).threw)
    => /\ last.out = KVGetError(K, "SyntaxError")
       /\ store[K] = Entry(W.val, NoMeta)

C17_Witness ==
  /\ ReadDone({"typedGet"})
  /\ W = Wrote("put", TextV, "")
  /\ last.out = KVGetError(K, "SyntaxError")
  /\ last.calls = <<GetCall(K, "json")>>
  /\ store[K] = Entry(TextV, NoMeta)

\* C18: putJSON(k, v) of a value whose serialization throws fails with
\* PutFailure carrying k, issues no backend call and leaves the store, the
\* earlier value of k included, as it was.
C18_PutJsonCyclic ==
  [][(last'.op = "putJSON" /\ JSONStringify(last'.arg).threw)
       => /\ last'.out.tag = "KVPutError"
          /\ last'.out.key = last'.key
          /\ last'.calls = <<>>
          /\ store' = store
          /\ order' = order]_vars

C18_Witness ==
  /\ last.op = "putJSON"
  /\ last.arg = JCyclic
  /\ last.out = KVPutError(K, "TypeError")
  /\ last.calls = <<>>
  /\ store[K] = Entry(TextV, NoMeta)

\* C19: typed put(k, v) of a value the schema does not encode fails with
\* PutFailure carrying k and the cause "Schema encoding failed", issues no
\* backend call and leaves every entry as it was; a backend write is issued
\* only after the encode has succeeded.
C19_TypedPutEncodeFails ==
  [][(last'.op = "typedPut")
       => /\ ~Satisfies(last'.schema, last'.arg)
               => /\ last'.out = KVPutError(last'.key, "Schema encoding failed")
                  /\ last'.calls = <<>>
                  /\ last'.steps = <<"encode">>
                  /\ store' = store
          /\ last'.calls # <<>>
               => /\ Satisfies(last'.schema, last'.arg)
                  /\ last'.steps = <<"encode", "putJSON">>
                  /\ last'.calls = <<PutCall(last'.key, JText(<<>>))>>]_vars

C19_Witness ==
  /\ last.op = "typedPut"
  /\ last.arg = UserBad
  /\ last.out = KVPutError(K, "Schema encoding failed")
  /\ last.calls = <<>>
  /\ store[K] = Entry(JText(Ser(UserOk)), "User")
\* both callers have completed a put on k
BothDone(k) ==
  \A c \in Callers :
    callers[c].pc = "done" /\ callers[c].key = k /\ callers[c].out.tag = "Success"

\* a get after both puts on its key completed yields the value of the caller
\* whose backend write was applied last
C20_LastAppliedWins ==
  (last.op = "get" /\ BothDone(K))
    => \E c \in Callers : applied[K] = c /\ last.out = Succeed(Some(callers[c].value))

\* a put changes the entry of its key only, when it begins; its end changes none
C20_OtherKeysKept ==
  \A c \in Callers :
    /\ (callers'[c] # callers[c] /\ callers'[c].pc = "called")
         => \A k \in Keys \ {callers'[c].key} : store'[k] = store[k]
    /\ (callers'[c] # callers[c] /\ callers'[c].pc = "done") => store' = store

\* C20: when two callers run put(k, v1) and put(k, v2) side by side, in any
\* interleaving, both puts complete; once both have completed, every get(k)
\* yields Present of the value whose backend write was applied last, v1 or
\* v2, never Absent; and the entries of the other keys are as they were.
C20_ConcurrentWriters ==
  /\ []C20_LastAppliedWins
  /\ [][C20_OtherKeysKept]_vars
  /\ \A c \in Callers : (callers[c].pc = "called") ~> (callers[c].pc = "done")

C20_Witness ==
  /\ last.op = "get"
  /\ BothDone(K)
  /\ callers["c1"].value = TextV
  /\ callers["c2"].value = TextNull
  /\ applied[K] = "c1"
  /\ written[K] = Wrote("put", TextNull, "")
  /\ last.out = Succeed(Some(TextV))
\* the operations that write, each under one key
WriteOps == {"put", "putJSON", "typedPut", "delete"}

\* C21: the reads of both facades (get, getJSON, getArrayBuffer, getStream,
\* getOrFail, getOrElse, list, typed get / getOrFail / getOrElse) leave the
\* store as it was, whether they succeed or fail; put, putJSON, typed put and
\* delete change at most the entry of their key, and none when they fail.
C21_Frame ==
  [][/\ last'.op \in FacadeOps \ WriteOps => (store' = store /\ order' = order)
     /\ last'.op \in WriteOps
          => /\ \A k \in Keys \ {last'.key} : store'[k] = store[k]
             /\ last'.out.tag # "Success" => (store' = store /\ order' = order)]_vars

C21_Witness ==
  /\ last.op = "typedPut"
  /\ last.out = Succeed(JUndefined)
  /\ last.had
  /\ store[K] = Entry(JText(Ser(UserOk)), "User")
  /\ \E k \in Keys \ {K} : store[k] = Entry(TextV, NoMeta)
\* C22: after putJSON(k, null) has succeeded, k reads as a missing key through
\* the JSON and typed reads (getJSON and typed get yield Absent, typed
\* getOrFail fails as it does for a key never written), while raw get yields
\* Present("null") and list shows k.
C22_NullReadsAsMissing ==
  /\ (last.op \in FacadeOps \ {"list"} /\ ~last.rej /\ W = Wrote("putJSON", JNull, ""))
       => /\ last.op \in {"getJSON", "typedGet"} => last.out = Succeed(None)
          /\ last.op = "typedGetOrFail" => last.out = KVGetError(K, "Key not found")
          /\ last.op = "get" => last.out = Succeed(Some(TextNull))
  /\ (last.op = "typedGetOrFail" /\ ~last.rej /\ W.kind = "never")
       => last.out = KVGetError(K, "Key not found")
  /\ (ListDone /\ Opts.prefix = NoPrefix /\ Opts.limit = NoLimit)
       => \A k \in Keys : written[k] = Wrote("putJSON", JNull, "") => k \in Names(Page.keys)

C22_Witness ==
  /\ last.op = "typedGetOrFail"
  /\ ~last.rej
  /\ last.had
  /\ W = Wrote("putJSON", JNull, "")
  /\ store[K] = Entry(TextNull, NoMeta)
  /\ last.out = KVGetError(K, "Key not found")
  /\ last.calls = <<GetCall(K, "json")>>
\* C23: typed getOrElse(k, d) encodes d before it reads the backend: when d
\* fails the encode the call fails with GetFailure and the cause "Default
\* value encoding failed" without a backend read, also when k holds a value
\* that satisfies the schema; and the encoded default is decoded only when k
\* is absent.
C23_EncodeBeforeRead ==
  ReadDone({"typedGetOrElse"}) =>
    /\ last.steps # <<>> /\ last.steps[1] = "encode"
    /\ ~Satisfies(last.schema, last.arg)
         => /\ last.out = KVGetError(K, "Default value encoding failed")
            /\ last.calls = <<>>
            /\ last.steps = <<"encode">>
    /\ (\E i \in DOMAIN last.steps : last.steps[i] = "decodeDefault") => ~store[K].has
====
